---- MODULE Spec2Model ----
(***************************************************************************)
(* The two development servers of the repository as one state machine:     *)
(*   server-perfect.py  (PerfectSPAHandler + main)   variant "perfect"     *)
(*   simple-server.py   (SimpleHandler + __main__)   variant "simple"      *)
(*                                                                         *)
(* A string is a sequence of one-character strings, so that startswith,    *)
(* endswith, lstrip, "'.' in path", urlparse and translate_path are        *)
(* computed character by character as the code computes them.              *)
(*                                                                         *)
(* Scope of the model:                                                     *)
(*   - the files under the serving root do not change while a server runs; *)
(*   - requests are GET requests of HTTP/1.0 or later without an           *)
(*     If-Modified-Since header (an HTTP/0.9 response has no headers);     *)
(*   - the request path is self.path as parse_request leaves it: it never  *)
(*     starts with "//" (parse_request reduces that to a single "/");      *)
(*   - nothing outside the serving root carries a name of the model.       *)
(***************************************************************************)
EXTENDS Naturals, Integers, Sequences, FiniteSets, TLC

VARIABLES
    variant,     \* which entry point runs: "perfect" or "simple"
    rootExists,  \* DEMO_DIR exists
    files,       \* the entries that exist under DEMO_DIR
    bindErrno,   \* 0: the port can be bound; otherwise the errno bind() fails with
    pc,          \* "start", "binding", "serving", "handling", "responded", "exited"
    exitCode,    \* exit status of the process, -1 while it runs
    diag,        \* the last diagnostic the entry point printed
    reqPath,     \* the path of the request being handled
    path,        \* self.path of the handler
    resp,        \* the response the handler sent
    earlier      \* history: this server has finished handling a request before

vars == <<variant, rootExists, files, bindErrno, pc, exitCode, diag, reqPath, path, resp,
          earlier>>

\* ---------------------------------------------------------------- bounds

\* Longest generated tail of a request path.
MaxSuffix == 1

\* ------------------------------------------------------- string constants

SLASH == "/"
DOT == "."
NUL == "NUL"

API_PREFIX == <<"/","a","p","i","/">>
METRICS == <<"/","m","e","t","r","i","c","s">>
HEALTH == <<"/","h","e","a","l","t","h">>
SW_JS == <<"/","s","w",".","j","s">>
MANIFEST_JSON == <<"/","m","a","n","i","f","e","s","t",".","j","s","o","n">>
SHIFT_SYSTEM == <<"/","s","h","i","f","t","-","s","y","s","t","e","m">>
SHIFT == <<"/","s","h","i","f","t">>
SHIFT_SPA == <<"/","s","h","i","f","t","-","s","y","s","t","e","m","-","s","p","a",".","h","t","m","l">>
DEMO_PERFECT == <<"/","d","e","m","o","-","p","e","r","f","e","c","t",".","h","t","m","l">>
EXT_JS == <<".","j","s">>
EXT_CSS == <<".","c","s","s">>
EXT_HTML == <<".","h","t","m","l">>

CC_IMMUTABLE == "public, max-age=31536000, immutable"
CC_NO_STORE == "no-cache, no-store, must-revalidate"
CC_NO_CACHE == "no-cache"

\* errno 48 is the one the enhanced entry point singles out (server-perfect.py:289).
EADDRINUSE_48 == 48

\* ------------------------------------------------------- string functions

Take(s, n) == SubSeq(s, 1, n)
Drop(s, n) == SubSeq(s, n + 1, Len(s))

\* str.startswith, str.endswith, "c in s"
StartsWith(s, pre) == Len(s) >= Len(pre) /\ Take(s, Len(pre)) = pre
EndsWith(s, suf) == Len(s) >= Len(suf) /\ Drop(s, Len(s) - Len(suf)) = suf
Contains(s, c) == \E i \in 1..Len(s) : s[i] = c

\* str.find, 1-based; 0 when c is not in s
Find(s, c) ==
    IF Contains(s, c)
    THEN CHOOSE i \in 1..Len(s) : s[i] = c /\ \A j \in 1..(i - 1) : s[j] # c
    ELSE 0

\* s.split(c, 1)[0]
Before(s, c) == IF Find(s, c) = 0 THEN s ELSE Take(s, Find(s, c) - 1)

\* str.rfind, 1-based; 0 when c is not in s
RFind(s, c) ==
    IF Contains(s, c)
    THEN CHOOSE i \in 1..Len(s) : s[i] = c /\ \A j \in (i + 1)..Len(s) : s[j] # c
    ELSE 0

\* s.lstrip(c)
RECURSIVE LStrip(_, _)
LStrip(s, c) == IF s # <<>> /\ Head(s) = c THEN LStrip(Tail(s), c) ELSE s

\* s.split(c)
RECURSIVE Split(_, _)
Split(s, c) ==
    IF Find(s, c) = 0 THEN <<s>>
    ELSE <<Take(s, Find(s, c) - 1)>> \o Split(Drop(s, Find(s, c)), c)

\* ------------------------------------------------ urllib.parse.urlparse

Letters ==
    {"a","b","c","d","e","f","g","h","i","j","k","l","m",
     "n","o","p","q","r","s","t","u","v","w","x","y","z"}
Digits == {"0","1","2","3","4","5","6","7","8","9"}
\* urllib.parse.scheme_chars
SchemeChars == Letters \cup Digits \cup {"+", "-", "."}
\* urllib.parse.uses_params, the members a model input can spell
UsesParams == {<<>>, <<"f","t","p">>, <<"h","t","t","p">>, <<"h","t","t","p","s">>}

\* Index of the first of "/", "?", "#" in s, or Len(s) + 1 (_splitnetloc's delim).
NetlocEnd(s) ==
    IF \E i \in 1..Len(s) : s[i] \in {"/", "?", "#"}
    THEN CHOOSE i \in 1..Len(s) :
            s[i] \in {"/", "?", "#"} /\ \A j \in 1..(i - 1) : s[j] \notin {"/", "?", "#"}
    ELSE Len(s) + 1

\* urlsplit(url): [error |-> a ValueError is raised, scheme, netloc, path].
UrlSplit(url) ==
    LET colon == Find(url, ":")
        hasScheme == /\ colon > 1
                     /\ url[1] \in Letters
                     /\ \A j \in 1..(colon - 1) : url[j] \in SchemeChars
        scheme == IF hasScheme THEN Take(url, colon - 1) ELSE <<>>
        rest1 == IF hasScheme THEN Drop(url, colon) ELSE url
        hasNetloc == StartsWith(rest1, <<"/", "/">>)
        after == Drop(rest1, 2)
        netloc == IF hasNetloc THEN Take(after, NetlocEnd(after) - 1) ELSE <<>>
        rest2 == IF hasNetloc THEN Drop(after, NetlocEnd(after) - 1) ELSE rest1
    IN  [error  |-> hasNetloc /\ (Contains(netloc, "[") # Contains(netloc, "]")),
         scheme |-> scheme,
         netloc |-> netloc,
         path   |-> Before(Before(rest2, "#"), "?")]

\* _splitparams(url)[0]: the url up to the first ";" of its last segment.
SplitParams(url) ==
    LET from == IF Contains(url, "/") THEN RFind(url, "/") ELSE 1
        hit == {i \in from..Len(url) : url[i] = ";"}
    IN  IF hit = {} THEN url
        ELSE Take(url, (CHOOSE i \in hit : \A j \in hit : i <= j) - 1)

\* urlparse(url): [error, path], the path with query, fragment and params cut off.
UrlParse(url) ==
    LET sp == UrlSplit(url)
    IN  [error |-> sp.error,
         path  |-> IF sp.scheme \in UsesParams /\ Contains(sp.path, ";")
                   THEN SplitParams(sp.path) ELSE sp.path]

\* ------------------------------------- SimpleHTTPRequestHandler.translate_path

\* The percent escapes a model input can spell, and the character each decodes to.
Escapes == {<<"0","0">>, <<"2","e">>, <<"6","1">>}
Unescape(h) ==
    CASE h = <<"0","0">> -> NUL
      [] h = <<"2","e">> -> DOT
      [] h = <<"6","1">> -> "a"

\* urllib.parse.unquote
RECURSIVE Unquote(_)
Unquote(s) ==
    IF s = <<>> THEN <<>>
    ELSE IF Len(s) >= 3 /\ s[1] = "%" /\ <<s[2], s[3]>> \in Escapes
         THEN <<Unescape(<<s[2], s[3]>>)>> \o Unquote(Drop(s, 3))
         ELSE <<Head(s)>> \o Unquote(Tail(s))

PARDIR == <<".", ".">>
CURDIR == <<".">>

\* posixpath.normpath's loop over the components; absolute: the path starts with "/".
RECURSIVE NormComps(_, _, _)
NormComps(comps, acc, absolute) ==
    IF comps = <<>> THEN acc
    ELSE LET comp == Head(comps)
             rest == Tail(comps)
         IN  IF comp \in {<<>>, CURDIR} THEN NormComps(rest, acc, absolute)
             ELSE IF \/ comp # PARDIR
                     \/ (~absolute /\ acc = <<>>)
                     \/ (acc # <<>> /\ acc[Len(acc)] = PARDIR)
                  THEN NormComps(rest, Append(acc, comp), absolute)
                  ELSE IF acc # <<>>
                       THEN NormComps(rest, Take(acc, Len(acc) - 1), absolute)
                       ELSE NormComps(rest, acc, absolute)

\* translate_path(p): the words under the serving root that p resolves to, and
\* whether a "/" is appended.
TranslatePath(p) ==
    LET cut == Before(Before(p, "?"), "#")
        decoded == Unquote(cut)
        comps == NormComps(Split(decoded, SLASH), <<>>, StartsWith(decoded, <<SLASH>>))
    IN  [words    |-> SelectSeq(comps, LAMBDA w : w \notin {<<>>, CURDIR, PARDIR}),
         trailing |-> EndsWith(cut, <<SLASH>>)]

\* ------------------------------------------------------- the serving root

\* An entry under the serving root is the sequence of its path's words.
ROOT == <<>>
DEMO_FILE == <<Tail(DEMO_PERFECT)>>
SPA_FILE == <<Tail(SHIFT_SPA)>>
SHIFT_FILE == <<Tail(SHIFT)>>
A_FILE == << <<"a">> >>
API_DIR == << <<"a","p","i">> >>
API_A_FILE == << <<"a","p","i">>, <<"a">> >>

\* The entries a serving root of the model may hold; API_DIR is a directory, the
\* others are regular files. No index.html or index.htm is among them.
DirEntries == {API_DIR}
Universe == {DEMO_FILE, SPA_FILE, SHIFT_FILE, A_FILE, API_DIR, API_A_FILE}
ValidFiles == {f \in SUBSET Universe : API_A_FILE \in f => API_DIR \in f}

\* The directory above the serving root, and every directory above that one.
OUTSIDE == <<PARDIR>>

IsDir(node, fs) == node = OUTSIDE \/ node = ROOT \/ (node \in fs /\ node \in DirEntries)

Parent(node) == IF node \in {ROOT, OUTSIDE} THEN OUTSIDE ELSE Take(node, Len(node) - 1)

\* The kernel's walk of the components comps from node: every component, the empty
\* one after a trailing "/" too, is looked up in a directory.
RECURSIVE Walk(_, _, _)
Walk(node, comps, fs) ==
    IF comps = <<>> THEN TRUE
    ELSE IF ~IsDir(node, fs) THEN FALSE
    ELSE LET comp == Head(comps)
         IN  IF comp \in {<<>>, CURDIR} THEN Walk(node, Tail(comps), fs)
             ELSE IF comp = PARDIR THEN Walk(Parent(node), Tail(comps), fs)
             ELSE /\ node # OUTSIDE
                  /\ Append(node, comp) \in fs
                  /\ Walk(Append(node, comp), Tail(comps), fs)

\* os.path.exists(os.path.join(DEMO_DIR, rel)); False on an embedded NUL.
PathExists(rel, fs, root) ==
    /\ root
    /\ ~Contains(rel, NUL)
    /\ Walk(ROOT, Split(rel, SLASH), fs)

\* ---------------------------------------------------------------- responses

Response(status, kind, ctype, cache) ==
    [status |-> status, kind |-> kind, ctype |-> ctype, cache |-> cache]

\* No response: nothing was sent (yet).
NoResp == Response(0, "none", "", <<>>)
\* The handler raised: socketserver's handle_error logs it and closes the connection.
Raised == Response(0, "exception", "", <<>>)

\* SimpleHTTPRequestHandler.do_GET on self.path = p; cache: the Cache-Control
\* headers the handler's end_headers adds to the response.
SendHead(p, fs, root, cache) ==
    LET tp == TranslatePath(p)
        hasNul == \E i \in 1..Len(tp.words) : Contains(tp.words[i], NUL)
        exists == root /\ ~hasNul /\ (tp.words = ROOT \/ tp.words \in fs)
        isdir == exists /\ (tp.words = ROOT \/ tp.words \in DirEntries)
    IN  IF isdir
        THEN IF UrlSplit(p).error THEN Raised
             ELSE IF ~EndsWith(UrlSplit(p).path, <<SLASH>>)
                  THEN Response(301, "redirect", "", cache)
                  ELSE Response(200, "listing", "text/html", cache)
        ELSE IF tp.trailing THEN Response(404, "error", "text/html", cache)
        ELSE IF hasNul THEN Raised
        ELSE IF exists THEN Response(200, "file", "guess_type", cache)
        ELSE Response(404, "error", "text/html", cache)

\* ----------------------------------------------- server-perfect.py: handler

\* A faulty end_headers: ".html" joins the tuple of the long-lived extensions.
EndHeadersHtmlAsAsset(p) ==
    IF EndsWith(p, EXT_JS) \/ EndsWith(p, EXT_CSS) \/ EndsWith(p, EXT_HTML)
    THEN <<CC_IMMUTABLE>>
    ELSE <<>>

\* PerfectSPAHandler.end_headers: the Cache-Control headers sent for self.path = p.
PerfectEndHeaders(p) ==
    IF EndsWith(p, EXT_JS) \/ EndsWith(p, EXT_CSS) THEN <<CC_IMMUTABLE>>
    ELSE IF EndsWith(p, EXT_HTML) THEN <<CC_NO_STORE>>
    ELSE <<>>

\* The fixed payloads: send_response(200), Content-Type, end_headers, body.
Payload(kind, ctype, p) == Response(200, kind, ctype, PerfectEndHeaders(p))

\* A faulty API test: a dotted path is taken for an asset and not for the API.
IsApiRequestUndotted(parsedPath) ==
    StartsWith(parsedPath, API_PREFIX) /\ ~Contains(parsedPath, DOT)

\* do_GET's test for the simulated API, on urlparse(self.path).path
IsApiRequest(parsedPath) == StartsWith(parsedPath, API_PREFIX)

\* A faulty existence test: on the parsed path, the query cut off.
ParsedRel(p) == LStrip(UrlParse(p).path, SLASH)

\* The name do_GET hands to os.path.exists: self.path.lstrip('/')
LiteralRel(p) == LStrip(p, SLASH)

\* A faulty routing: the default SPA branch is tested before the shift branch.
RoutePathFallbackFirst(p, fs, root) ==
    IF p # <<SLASH>> /\ ~PathExists(LStrip(p, SLASH), fs, root)
       /\ ~StartsWith(p, API_PREFIX) /\ ~Contains(p, DOT)
    THEN DEMO_PERFECT
    ELSE IF p = SHIFT_SYSTEM \/ p = SHIFT THEN SHIFT_SPA
    ELSE p

\* do_GET's two routing branches: the value of self.path when super().do_GET() runs.
RoutePath(p, fs, root) ==
    IF p = SHIFT_SYSTEM \/ p = SHIFT THEN SHIFT_SPA
    ELSE IF p # <<SLASH>> /\ ~PathExists(LiteralRel(p), fs, root)
         THEN IF ~StartsWith(p, API_PREFIX) /\ ~Contains(p, DOT)
              THEN DEMO_PERFECT
              ELSE p
         ELSE p

\* PerfectSPAHandler.do_GET on self.path = p: [path: self.path afterwards, resp].
PerfectGET(p, fs, root) ==
    LET parsed == UrlParse(p)
    IN  IF parsed.error THEN [path |-> p, resp |-> Raised]
        ELSE IF IsApiRequest(parsed.path)
             THEN [path |-> p, resp |-> Payload("api", "application/json", p)]
        ELSE IF parsed.path = METRICS
             THEN [path |-> p, resp |-> Payload("metrics", "application/json", p)]
        ELSE IF parsed.path = HEALTH
             THEN [path |-> p, resp |-> Payload("health", "application/json", p)]
        ELSE IF parsed.path = SW_JS
             THEN [path |-> p, resp |-> Payload("service_worker", "application/javascript", p)]
        ELSE IF parsed.path = MANIFEST_JSON
             THEN [path |-> p, resp |-> Payload("manifest", "application/json", p)]
        ELSE LET q == RoutePath(p, fs, root)
             IN  [path |-> q, resp |-> SendHead(q, fs, root, PerfectEndHeaders(q))]

\* ------------------------------------------------ simple-server.py: handler

\* SimpleHandler.end_headers
SimpleEndHeaders(p) == <<CC_NO_CACHE>>

\* SimpleHandler.do_GET on self.path = p
SimpleGET(p, fs, root) ==
    LET q == IF p = <<SLASH>> \/ p = <<>> THEN DEMO_PERFECT ELSE p
    IN  [path |-> q, resp |-> SendHead(q, fs, root, SimpleEndHeaders(q))]

\* ------------------------------------------------------------------ inputs

\* The request paths of the model: the paths the code names, one path for each
\* kind of query, fragment, params, escape and scheme, and every path made of a
\* prefix and a tail of at most MaxSuffix characters.
NamedPaths ==
    {
     <<"/">>,
     <<"/","s","h","i","f","t">>,
     <<"/","s","h","i","f","t","-","s","y","s","t","e","m">>,
     <<"/","m","e","t","r","i","c","s">>,
     <<"/","h","e","a","l","t","h">>,
     <<"/","s","w",".","j","s">>,
     <<"/","m","a","n","i","f","e","s","t",".","j","s","o","n">>,
     <<"/","d","e","m","o","-","p","e","r","f","e","c","t",".","h","t","m","l">>,
     <<"/","s","h","i","f","t","-","s","y","s","t","e","m","-","s","p","a",".","h","t","m","l">>,
     <<"/","m","e","t","r","i","c","s","?","a">>,
     <<"/","s","h","i","f","t","?","a">>,
     <<"/","a","p","i">>,
     <<"/","a","p","i","/",".","/","a">>,
     <<"/","a",".","j","s">>,
     <<"/","a",".","c","s","s">>,
     <<"/","a",".","h","t","m","l">>,
     <<"/","%","0","0",".","a">>,
     <<"/","%","0","0">>,
     <<"/","%","6","1">>,
     <<"/","a","/",".",".","/","d","e","m","o","-","p","e","r","f","e","c","t",".","h","t","m","l">>,
     <<"a",":","/","/","[">>,
     <<"a",":","/","m","e","t","r","i","c","s">>}
Alphabet == {"/", ".", "a", "?"}
Prefixes == {<<"/">>, API_PREFIX, <<"/","a">>, <<"/","a","?">>}
Tails == UNION {[1..k -> Alphabet] : k \in 0..MaxSuffix}
RequestPaths ==
    {p \in NamedPaths \cup {pre \o t : pre \in Prefixes, t \in Tails} :
        ~StartsWith(p, <<"/", "/">>)}

\* The errno values bind() fails with in the model: EADDRINUSE on macOS (48) and
\* on Linux (98), EACCES (13); 0 when it succeeds.
BindErrnos == {0, EADDRINUSE_48, 98, 13}

Running == {"serving", "handling", "responded"}

\* ------------------------------------------------------------ state machine

Init ==
    /\ variant \in {"perfect", "simple"}
    /\ rootExists \in BOOLEAN
    /\ files \in (IF rootExists THEN ValidFiles ELSE {{}})
    /\ bindErrno \in BindErrnos
    /\ pc = "start"
    /\ exitCode = -1
    /\ diag = "none"
    /\ reqPath = <<>>
    /\ path = <<>>
    /\ resp = NoResp
    /\ earlier = FALSE

Exit(code, message) ==
    /\ pc' = "exited"
    /\ exitCode' = code
    /\ diag' = message

\* server-perfect.py main: the checks before the server is created.
PerfectCheck ==
    /\ variant = "perfect"
    /\ pc = "start"
    /\ IF ~rootExists THEN Exit(1, "directory not found")
       ELSE IF DEMO_FILE \notin files THEN Exit(1, "demo-perfect.html not found")
       ELSE pc' = "binding" /\ UNCHANGED <<exitCode, diag>>
    /\ UNCHANGED <<variant, rootExists, files, bindErrno, reqPath, path, resp, earlier>>

\* server-perfect.py main: socketserver.TCPServer(("", PORT), ...) and the
\* handlers of the OSError it raises.
PerfectBind ==
    /\ variant = "perfect"
    /\ pc = "binding"
    /\ IF bindErrno = 0 THEN pc' = "serving" /\ UNCHANGED <<exitCode, diag>>
       ELSE IF bindErrno = EADDRINUSE_48 THEN Exit(1, "port already in use")
       ELSE Exit(1, "error starting server")
    /\ UNCHANGED <<variant, rootExists, files, bindErrno, reqPath, path, resp, earlier>>

\* simple-server.py __main__: the server is created with no check before it; an
\* exception is printed and the script runs off its end.
SimpleBind ==
    /\ variant = "simple"
    /\ pc = "start"
    /\ IF bindErrno = 0 THEN pc' = "serving" /\ UNCHANGED <<exitCode, diag>>
       ELSE Exit(0, "error")
    /\ UNCHANGED <<variant, rootExists, files, bindErrno, reqPath, path, resp, earlier>>

\* A faulty handler: the path is kept on the class, so that a rewrite made for an
\* earlier request is what the next handler starts from.
StickyHandlerPath(p, old) == IF old \in {SHIFT_SPA, DEMO_PERFECT} THEN old ELSE p

\* A handler is constructed for each request and parse_request sets its path from
\* the request line; old is the path the previous handler was left with.
NewHandlerPath(p, old) == p

\* serve_forever accepts a request and constructs its handler.
Receive(p) ==
    /\ pc = "serving"
    /\ pc' = "handling"
    /\ reqPath' = p
    /\ path' = NewHandlerPath(p, path)
    /\ resp' = NoResp
    /\ UNCHANGED <<variant, rootExists, files, bindErrno, exitCode, diag, earlier>>

\* PerfectSPAHandler.do_GET
PerfectDoGET ==
    /\ variant = "perfect"
    /\ pc = "handling"
    /\ pc' = "responded"
    /\ path' = PerfectGET(path, files, rootExists).path
    /\ resp' = PerfectGET(path, files, rootExists).resp
    /\ UNCHANGED <<variant, rootExists, files, bindErrno, exitCode, diag, reqPath, earlier>>

\* SimpleHandler.do_GET
SimpleDoGET ==
    /\ variant = "simple"
    /\ pc = "handling"
    /\ pc' = "responded"
    /\ path' = SimpleGET(path, files, rootExists).path
    /\ resp' = SimpleGET(path, files, rootExists).resp
    /\ UNCHANGED <<variant, rootExists, files, bindErrno, exitCode, diag, reqPath, earlier>>

\* A faulty serving loop: a not-found response ends it.
AfterRequestStopOn404(r) == IF r.status = 404 THEN "exited" ELSE "serving"

\* Where serve_forever goes once a request was handled with outcome r: back to
\* waiting, whether r is a response or an exception handle_error logged.
AfterRequest(r) == "serving"

\* The handler finishes and the connection is closed.
Finish ==
    /\ pc = "responded"
    /\ pc' = AfterRequest(resp)
    /\ reqPath' = <<>>
    /\ earlier' = TRUE
    /\ UNCHANGED <<variant, rootExists, files, bindErrno, exitCode, diag, path, resp>>

\* KeyboardInterrupt during serve_forever: both entry points print and return.
Interrupt ==
    /\ pc \in Running
    /\ Exit(0, "stopped by user")
    /\ UNCHANGED <<variant, rootExists, files, bindErrno, reqPath, path, resp, earlier>>

Next ==
    \/ PerfectCheck
    \/ PerfectBind
    \/ SimpleBind
    \/ \E p \in RequestPaths : Receive(p)
    \/ PerfectDoGET
    \/ SimpleDoGET
    \/ Finish
    \/ Interrupt

Spec == Init /\ [][Next]_vars

\* ------------------------------------------------------------------ claims

Responded == pc = "responded"
Enhanced == variant = "perfect"

\* An origin-form request path: it starts with "/".
IsPath(p) == StartsWith(p, <<SLASH>>)

\* The reserved paths: /api/..., /metrics, /health, /sw.js, /manifest.json
ReservedPath(q) ==
    StartsWith(q, API_PREFIX) \/ q \in {METRICS, HEALTH, SW_JS, MANIFEST_JSON}

\* Not /shift, not /shift-system, not exactly "/", and no "." in it.
RouteLike(p) == p \notin {SHIFT, SHIFT_SYSTEM} /\ p # <<SLASH>> /\ ~Contains(p, DOT)

\* The request path, its leading slashes stripped, is an entry of the serving root.
LiterallyExists == PathExists(LStrip(reqPath, SLASH), files, rootExists)

\* Static serving's own reading of the request path (query and fragment cut off,
\* escapes decoded, "." and ".." resolved) is an entry of the serving root.
StaticallyExists ==
    /\ rootExists
    /\ TranslatePath(reqPath).words \in files \cup {ROOT}

\* C1: under an existing serving root, every path a request was rewritten to
\* resolves to a file that exists there, so that no rewritten request ends in a
\* not-found response.
C1_RewrittenPathResolves ==
    (rootExists /\ Responded /\ path # reqPath) =>
        (<<Tail(path)>> \in files /\ resp.status # 404)

\* C2: when the serving root or demo-perfect.html is missing at startup, neither
\* entry point ever listens or handles a request, and its exit status is non-zero.
C2_MissingEntryNeverListens ==
    (~rootExists \/ DEMO_FILE \notin files) =>
        (pc \notin Running /\ (pc = "exited" => exitCode # 0))

\* C3: when binding the socket fails, whatever the errno, neither entry point
\* enters the serving loop, and its exit status is non-zero.
C3_BindFailureExitsNonZero ==
    bindErrno # 0 => (pc \notin Running /\ (pc = "exited" => exitCode # 0))

\* C4: in the enhanced handler a request path starting with "/api/" gets the api
\* payload (200, application/json) and is never rewritten or served statically,
\* whether or not it names a file and whether or not it holds a ".".
C4_ApiAlwaysPayload ==
    (Responded /\ Enhanced /\ StartsWith(reqPath, API_PREFIX)) =>
        /\ resp.status = 200
        /\ resp.kind = "api"
        /\ resp.ctype = "application/json"
        /\ path = reqPath

\* An api request for a dotted path that names an existing file was answered.
C4_Witness ==
    /\ Responded /\ Enhanced
    /\ reqPath = <<"/","a","p","i","/",".","/","a">>
    /\ LiterallyExists
    /\ resp.kind = "api"

\* C5 as stated: a request path that is none of the reserved paths and is
\* route-like is rewritten to /demo-perfect.html when it names no existing file,
\* and left as it is when it names one.
C5_Original ==
    (Responded /\ Enhanced /\ IsPath(reqPath)
        /\ ~ReservedPath(reqPath) /\ RouteLike(reqPath)) =>
        IF LiterallyExists THEN path = reqPath ELSE path = DEMO_PERFECT

\* C5 amended: the same for a request path whose URL path component (the
\* request path with query, fragment and the params of its last segment cut off)
\* is none of the reserved paths; "names a file" is the request path itself, query
\* included and leading slashes stripped, being an entry of the serving root.
C5_FallbackRewrite ==
    (Responded /\ Enhanced /\ IsPath(reqPath)
        /\ ~ReservedPath(UrlParse(reqPath).path) /\ RouteLike(reqPath)) =>
        IF LiterallyExists THEN path = reqPath ELSE path = DEMO_PERFECT

\* A route-like path with a query was rewritten although the file its path
\* component names exists.
C5_Witness ==
    /\ Responded /\ Enhanced
    /\ reqPath = <<"/","a","?","a">>
    /\ A_FILE \in files
    /\ path = DEMO_PERFECT
    /\ resp.status = 200

\* C6: in the enhanced handler a request path holding a "." is never rewritten,
\* and when it is not reserved and names no existing file (neither as it stands
\* nor as static serving reads it) the response is 404.
C6_DottedNeverRewrittenAnd404 ==
    (Responded /\ Enhanced /\ IsPath(reqPath) /\ Contains(reqPath, DOT)) =>
        /\ path = reqPath
        /\ (~ReservedPath(UrlParse(reqPath).path) /\ ~LiterallyExists /\ ~StaticallyExists)
              => resp.status = 404

\* C7: in the enhanced handler /shift and /shift-system are rewritten to
\* /shift-system-spa.html, whether or not a file of that name exists.
C7_ShiftRewrite ==
    (Responded /\ Enhanced /\ reqPath \in {SHIFT, SHIFT_SYSTEM}) =>
        (path = SHIFT_SPA /\ path # DEMO_PERFECT)

\* /shift was rewritten to /shift-system-spa.html while a file "shift" exists.
C7_Witness ==
    /\ Responded /\ Enhanced
    /\ reqPath = SHIFT
    /\ SHIFT_FILE \in files
    /\ path = SHIFT_SPA

\* C8: once the server listens, no outcome of a request ends the process: a
\* step takes a listening server out of its serving states only when the user
\* interrupts it.
C8_RequestsNeverStopServer ==
    [][(pc \in Running /\ diag' # "stopped by user") => pc' \in Running]_vars

\* The server waits for the next request after a request that ended in a 404.
C8_Witness ==
    /\ pc = "serving"
    /\ earlier
    /\ resp.status = 404

\* C9: what the enhanced handler does with a request (the path it serves and the
\* response) is a function of the request path and of the entries of the serving
\* root, whatever the server handled before.
C9_DecisionIsFunctionOfPathAndFiles ==
    (Responded /\ Enhanced) =>
        /\ path = PerfectGET(reqPath, files, rootExists).path
        /\ resp = PerfectGET(reqPath, files, rootExists).resp

\* A request was handled, and rewritten, by a server that had handled a request
\* before.
C9_Witness ==
    /\ Responded /\ Enhanced
    /\ earlier
    /\ path # reqPath

\* C10: every response of the enhanced handler carries at most one Cache-Control
\* header, chosen by the extension of the handler's path after routing: .js and
\* .css the immutable policy, .html the no-store policy, anything else none; so a
\* rewritten request carries the no-store policy.
C10_CachePolicyByFinalPath ==
    (Responded /\ Enhanced /\ resp.status # 0) =>
        /\ Len(resp.cache) <= 1
        /\ resp.cache = IF EndsWith(path, <<".","j","s">>) \/ EndsWith(path, <<".","c","s","s">>)
                        THEN <<CC_IMMUTABLE>>
                        ELSE IF EndsWith(path, <<".","h","t","m","l">>)
                             THEN <<CC_NO_STORE>>
                             ELSE <<>>
        /\ (path # reqPath => resp.cache = <<CC_NO_STORE>>)

\* A rewritten request was answered with the no-store policy.
C10_Witness ==
    /\ Responded /\ Enhanced
    /\ path = DEMO_PERFECT /\ reqPath # DEMO_PERFECT
    /\ resp.status = 200
    /\ resp.cache = <<CC_NO_STORE>>

====
